---- MODULE Spec2Model ----
(***************************************************************************)
(* Model of opal_server/git_fetcher.py: GitPolicyFetcher, RepoInterface.   *)
(* A task is one GitPolicyFetcher (one scope) calling                      *)
(* fetch_and_notify_on_changes and make_bundle on its source.              *)
(* Commits are 1..MaxCommit on one line of history; 0 stands for None (an  *)
(* absent ref, no hinted hash, no base hash).                              *)
(***************************************************************************)
EXTENDS Integers, Sequences, FiniteSets, TLC

\* ---- bounds ----
MaxCommit == 2
MaxCalls == 2
SeqCalls == 4
RetryCalls == 3
MaxEvents == 2

\* ---- the sources (GitPolicyScopeSource) of the fetchers ----
Tasks == {"t1", "t2", "t3"}
URLs == {"u1", "u2"}
Branches == {"main", "dev"}
NoTask == "none"
None == 0
Commits == 1..MaxCommit

source ==
    [t \in Tasks |->
        CASE t = "t1" -> [url |-> "u1", branch |-> "main"]
          [] t = "t2" -> [url |-> "u1", branch |-> "dev"]
          [] OTHER    -> [url |-> "u2", branch |-> "main"]]

\* hashlib.sha256(url).hexdigest(): a digest of the URL alone, one per URL
sha256 == [u \in URLs |-> IF u = "u1" THEN "h1" ELSE "h2"]

\* (mutant) an id that does not depend on the URL
source_id_same(src) == "h1"

source_id(src) == sha256[src.url]

Ids == {sha256[u] : u \in URLs}

\* base_dir / "git_sources" / source_id(source)
repo_clone_path(src) == source_id(src)

\* (mutant) a lock named by the branch, not by the source id
_get_repo_lock_by_branch(src) == IF src.branch = "main" THEN "h1" ELSE "h2"

\* locks_dir / source_id(self._source)
_get_repo_lock(src) == source_id(src)

\* ---- the local clone at a path ----
NoRefs == [b \in Branches |-> None]

AbsentRepo ==
    [kind |-> "absent", remotes |-> {}, rrefs |-> NoRefs, lrefs |-> NoRefs, objects |-> {}]

\* (mutant) a path without a clone counts as a repository
_discover_repository_any(repo) == TRUE

\* discover_repository(path) and (path / ".git").exists()
_discover_repository(repo) == repo.kind # "absent"

\* some remote of the repo has the expected url; otherwise ValueError
verify_found_repo_matches_remote(repo, expected_remote_url) ==
    \E r \in repo.remotes : r = expected_remote_url

\* "repo" | "None" (pygit2.GitError caught) | "ValueError" (not caught)
_get_valid_repo(repo, src) ==
    IF repo.kind = "corrupt" THEN "None"
    ELSE IF verify_found_repo_matches_remote(repo, src.url) THEN "repo"
    ELSE "ValueError"

has_remote_branch(repo, branch) == repo.rrefs[branch] # None

\* (mutant) the previous revision is read from the remote-tracking ref
get_local_branch_remote(repo, branch) == repo.rrefs[branch]

get_local_branch(repo, branch) == repo.lrefs[branch]

\* (mutant) falls back to another remote branch when the branch is unknown
get_commit_hash_any(repo, branch) ==
    IF repo.rrefs[branch] # None THEN repo.rrefs[branch] ELSE repo.rrefs["main"]

get_commit_hash(repo, branch) == repo.rrefs[branch]

\* repo.revparse_single(hinted_hash) finds the object
revparse_single(repo, hash) == hash \in repo.objects

\* (mutant) a hint always asks for a fetch
_should_fetch_hinted(repo, branch, hinted_hash, force_fetch) ==
    IF force_fetch THEN TRUE
    ELSE IF ~has_remote_branch(repo, branch) THEN TRUE
    ELSE hinted_hash # None

\* (mutant) force_fetch is not looked at
_should_fetch_unforced(repo, branch, hinted_hash, force_fetch) ==
    IF ~has_remote_branch(repo, branch) THEN TRUE
    ELSE IF hinted_hash # None THEN ~revparse_single(repo, hinted_hash)
    ELSE FALSE

_should_fetch(repo, branch, hinted_hash, force_fetch) ==
    IF force_fetch THEN TRUE
    ELSE IF ~has_remote_branch(repo, branch) THEN TRUE
    ELSE IF hinted_hash # None THEN ~revparse_single(repo, hinted_hash)
    ELSE FALSE

\* the local refs after the call, or "RuntimeError"
create_local_branch_ref(repo, branch_name, base_branch) ==
    IF repo.lrefs[branch_name] = None
    THEN IF repo.rrefs[branch_name] # None
         THEN [err |-> "", lrefs |-> [repo.lrefs EXCEPT ![branch_name] = repo.rrefs[branch_name]]]
         ELSE IF repo.rrefs[base_branch] # None
         THEN [err |-> "", lrefs |-> [repo.lrefs EXCEPT ![branch_name] = repo.rrefs[base_branch]]]
         ELSE [err |-> "RuntimeError", lrefs |-> repo.lrefs]
    ELSE [err |-> "", lrefs |-> repo.lrefs]

\* every object reachable from the heads the remote advertises
ObjectsOf(heads) == {c \in Commits : \E b \in Branches : c <= heads[b]}

\* repo.remotes[origin].fetch: remote-tracking refs and objects brought up to date
FetchedRepo(repo, heads) ==
    [repo EXCEPT !.rrefs = [b \in Branches |-> IF heads[b] # None THEN heads[b] ELSE @[b]],
                 !.objects = @ \cup ObjectsOf(heads)]

\* clone_repository(url, path, checkout_branch=branch)
ClonedRepo(url, branch, heads) ==
    [kind |-> "ok", remotes |-> {url}, rrefs |-> heads,
     lrefs |-> [b \in Branches |-> IF b = branch THEN heads[b] ELSE None],
     objects |-> ObjectsOf(heads)]

\* ---- make_bundle ----
FullBundle(head) == [kind |-> "full", base |-> None, head |-> head]
DiffBundle(base, head) == [kind |-> "diff", base |-> base, head |-> head]
Raised(what) == [kind |-> what, base |-> None, head |-> None]

\* _get_current_branch_head: the head, or None where it raises ValueError
_get_current_branch_head(repo, branch) == get_commit_hash(repo, branch)

\* git.Repo.commit(hash): ValueError when the object is not in the clone
commit_found(repo, hash) == hash \in repo.objects

\* (mutant) no handler for the ValueError of an unknown base
make_bundle_no_fallback(repo, branch, base_hash) ==
    IF repo.kind # "ok" THEN Raised("InvalidGitRepositoryError")
    ELSE IF _get_current_branch_head(repo, branch) = None THEN Raised("ValueError")
    ELSE IF base_hash = None THEN FullBundle(_get_current_branch_head(repo, branch))
    ELSE IF commit_found(repo, base_hash)
         THEN DiffBundle(base_hash, _get_current_branch_head(repo, branch))
         ELSE Raised("ValueError")

make_bundle(repo, branch, base_hash) ==
    IF repo.kind # "ok" THEN Raised("InvalidGitRepositoryError")
    ELSE IF _get_current_branch_head(repo, branch) = None THEN Raised("ValueError")
    ELSE IF base_hash = None THEN FullBundle(_get_current_branch_head(repo, branch))
    ELSE IF commit_found(repo, base_hash)
         THEN DiffBundle(base_hash, _get_current_branch_head(repo, branch))
         ELSE FullBundle(_get_current_branch_head(repo, branch))

\* ---- GitCallback.credentials ----
\* the auth of a source: SSHAuthData (public_key is optional), GitHubTokenAuthData,
\* or anything else (no authentication)
NoKey == "<None>"
SSHAuthData == [type : {"ssh"}, public_key : {NoKey, "", "pub"}, private_key : {"priv"}]
GitHubTokenAuthData == [type : {"github_token"}, token : {"tok"}]
NoAuthData == [type : {"none"}]
Auths == SSHAuthData \cup GitHubTokenAuthData \cup NoAuthData
Usernames == {"git", "alice"}
\* the credential types the transport may ask for
AllowedTypes == SUBSET {"USERPASS_PLAINTEXT", "SSH_KEY", "USERNAME"}

KeypairFromMemory(username, pubkey, privkey, passphrase) ==
    [kind |-> "KeypairFromMemory", username |-> username, pubkey |-> pubkey,
     privkey |-> privkey, passphrase |-> passphrase]
UserPass(username, password) ==
    [kind |-> "UserPass", username |-> username, password |-> password]
Username(username) == [kind |-> "Username", username |-> username]

\* auth.public_key or ""
or_empty(key) == IF key = NoKey THEN "" ELSE key

\* (mutant) answers with what the transport asked for
credentials_as_allowed(auth, url, username_from_url, allowed_types) ==
    IF auth.type = "ssh" /\ "SSH_KEY" \in allowed_types
    THEN KeypairFromMemory(username_from_url, or_empty(auth.public_key),
                           auth.private_key, "")
    ELSE IF auth.type = "github_token" /\ "USERPASS_PLAINTEXT" \in allowed_types
    THEN UserPass("git", auth.token)
    ELSE Username(username_from_url)

credentials(auth, url, username_from_url, allowed_types) ==
    IF auth.type = "ssh"
    THEN KeypairFromMemory(username_from_url, or_empty(auth.public_key),
                           auth.private_key, "")
    ELSE IF auth.type = "github_token"
    THEN UserPass("git", auth.token)
    ELSE Username(username_from_url)

VARIABLES
    remote,     \* the remote repositories: url -> branch -> head
    clones,     \* the local clones: path -> repository
    locks,      \* NamedLock: lock name -> holder
    pc,         \* where each task is in fetch_and_notify_on_changes
    args,       \* hinted_hash, force_fetch of the call in progress
    pending,    \* old_revision, new_revision handed to on_update
    outcome,    \* how the last call of each task ended
    fetched,    \* whether the call in progress (or the last call) ran a fetch
    repaired,   \* whether the call in progress (or the last call) ran rmtree
    calls,      \* history: the calls each observed task started
    log,        \* history: the on_update invocations of each observed task
    completed,  \* history: new revisions whose on_update completed
    failed,     \* history: the revisions of the on_update that raised last, until
                \* an on_update of the task returns
    events,     \* pushes, directory changes, transport and notifier failures so far
    budget,     \* calls each task may still start
    observed,   \* the tasks whose calls and notifications are kept as history
    bundle,     \* the last make_bundle call and its result
    cred        \* the last GitCallback.credentials call and its result

vars == <<remote, clones, locks, pc, args, pending, outcome, fetched, repaired, calls, log,
          completed, failed, events, budget, observed, bundle, cred>>

NoArgs == [hinted_hash |-> None, force_fetch |-> FALSE]
NoPending == [old |-> None, new |-> None, clone |-> FALSE]
NoCred == [called |-> FALSE]
NoBundle == [task |-> NoTask, base_hash |-> None, found |-> FALSE,
             result |-> Raised("none"), full |-> Raised("none")]

Start ==
    /\ remote = [u \in URLs |-> [b \in Branches |-> IF b = "main" THEN 1 ELSE None]]
    /\ clones = [i \in Ids |-> AbsentRepo]
    /\ locks = [i \in Ids |-> NoTask]
    /\ pc = [t \in Tasks |-> "idle"]
    /\ args = [t \in Tasks |-> NoArgs]
    /\ pending = [t \in Tasks |-> NoPending]
    /\ outcome = [t \in Tasks |-> "none"]
    /\ fetched = [t \in Tasks |-> FALSE]
    /\ repaired = [t \in Tasks |-> FALSE]
    /\ calls = [t \in Tasks |-> <<>>]
    /\ log = [t \in Tasks |-> <<>>]
    /\ completed = [t \in Tasks |-> {}]
    /\ failed = [t \in Tasks |-> NoPending]
    /\ events = 0
    /\ bundle = NoBundle
    /\ cred = NoCred

\* the two fetchers of one clone are scheduled, MaxCalls times each
Init ==
    /\ Start
    /\ budget = [t \in Tasks |-> IF source[t].url = "u1" THEN MaxCalls ELSE 0]
    /\ observed = {}

\* every fetcher is scheduled once, all at the same time
InitAll ==
    /\ Start
    /\ budget = [t \in Tasks |-> 1]
    /\ observed = {}

\* one fetcher alone, called SeqCalls times in turn, its history kept
InitSeq ==
    /\ Start
    /\ budget = [t \in Tasks |-> IF t = "t1" THEN SeqCalls ELSE 0]
    /\ observed = {"t1"}

\* the two fetchers of one clone, called once each, and make_bundle
InitBundle ==
    /\ Start
    /\ budget = [t \in Tasks |-> IF source[t].url = "u1" THEN 1 ELSE 0]
    /\ observed = {}

\* one fetcher alone, called RetryCalls times in turn
InitRetry ==
    /\ Start
    /\ budget = [t \in Tasks |-> IF t = "t1" THEN RetryCalls ELSE 0]
    /\ observed = {}

\* no fetcher is scheduled: GitCallback.credentials alone
InitCred ==
    /\ Start
    /\ budget = [t \in Tasks |-> 0]
    /\ observed = {}

\* ---- NamedLock (opal_common.synchronization.named_lock) ----
\* __aenter__ returns only when nobody holds the lock of that name
lock_free(name) == locks[name] = NoTask
lock_taken(name, t) == [locks EXCEPT ![name] = t]
\* __aexit__ gives the lock back
lock_released(name) == [locks EXCEPT ![name] = NoTask]

\* ---- fetch_and_notify_on_changes ----
Path(t) == repo_clone_path(source[t])
Repo(t) == clones[Path(t)]
CallNo(t) == Len(calls[t])

\* (mutant) the lock is given back at the end of the block only, not when an
\* error leaves it
ExitHoldingOnError(t, how) ==
    /\ locks' = IF how = "returned" THEN lock_released(_get_repo_lock(source[t])) ELSE locks
    /\ pc' = [pc EXCEPT ![t] = "idle"]
    /\ outcome' = [outcome EXCEPT ![t] = how]
    /\ args' = [args EXCEPT ![t] = NoArgs]

\* leave the `async with repo_lock` block and end the call
Exit(t, how) ==
    /\ locks' = lock_released(_get_repo_lock(source[t]))
    /\ pc' = [pc EXCEPT ![t] = "idle"]
    /\ outcome' = [outcome EXCEPT ![t] = how]
    /\ args' = [args EXCEPT ![t] = NoArgs]

\* (mutant) on_update is invoked after the block was left
GotoUnlocked(t, where) ==
    /\ pc' = [pc EXCEPT ![t] = where]
    /\ locks' = IF where = "on_update" THEN lock_released(_get_repo_lock(source[t]))
                ELSE locks
    /\ UNCHANGED <<outcome, args>>

\* stay inside the block
Goto(t, where) ==
    /\ pc' = [pc EXCEPT ![t] = where]
    /\ UNCHANGED <<locks, outcome, args>>

\* something happens to the fetchers from outside, MaxEvents times at most
Event ==
    /\ events < MaxEvents
    /\ events' = events + 1

\* history of the observed tasks
Record(hist, t, entry) ==
    IF t \in observed THEN [hist EXCEPT ![t] = Append(@, entry)] ELSE hist

\* a caller invokes fetch_and_notify_on_changes(hinted_hash, force_fetch)
Call(t, hinted_hash, force_fetch) ==
    /\ pc[t] = "idle"
    /\ budget[t] > 0
    /\ budget' = [budget EXCEPT ![t] = @ - 1]
    /\ pc' = [pc EXCEPT ![t] = "acquire"]
    /\ args' = [args EXCEPT ![t] = [hinted_hash |-> hinted_hash, force_fetch |-> force_fetch]]
    /\ outcome' = [outcome EXCEPT ![t] = "none"]
    /\ fetched' = [fetched EXCEPT ![t] = FALSE]
    /\ repaired' = [repaired EXCEPT ![t] = FALSE]
    /\ calls' = Record(calls, t, [hinted_hash |-> hinted_hash, force_fetch |-> force_fetch,
                                  head |-> remote[source[t].url][source[t].branch]])
    /\ UNCHANGED <<remote, clones, locks, pending, log, completed, failed, events, observed,
                   bundle, cred>>

\* async with repo_lock: NamedLock.__aenter__ returns once the lock is free
Acquire(t) ==
    /\ pc[t] = "acquire"
    /\ lock_free(_get_repo_lock(source[t]))
    /\ locks' = lock_taken(_get_repo_lock(source[t]), t)
    /\ pc' = [pc EXCEPT ![t] = "discover"]
    /\ UNCHANGED <<remote, clones, args, pending, outcome, fetched, repaired, calls, log,
                   completed, failed, events, budget, observed, bundle, cred>>

\* _discover_repository, _get_valid_repo, _should_fetch
Discover(t) ==
    /\ pc[t] = "discover"
    /\ IF _discover_repository(Repo(t))
       THEN LET valid == _get_valid_repo(Repo(t), source[t]) IN
            CASE valid = "repo" ->
                    Goto(t, IF _should_fetch(Repo(t), source[t].branch,
                                             args[t].hinted_hash, args[t].force_fetch)
                            THEN "fetch" ELSE "notify")
              [] valid = "None" -> Goto(t, "rmtree")
              [] OTHER -> Exit(t, "ValueError")
       ELSE Goto(t, "clone")
    /\ UNCHANGED <<remote, clones, pending, fetched, repaired, calls, log, completed, failed,
                   events, budget, observed, bundle, cred>>

\* shutil.rmtree(self._repo_path)
Rmtree(t) ==
    /\ pc[t] = "rmtree"
    /\ clones' = [clones EXCEPT ![Path(t)] = AbsentRepo]
    /\ repaired' = [repaired EXCEPT ![t] = TRUE]
    /\ Goto(t, "clone")
    /\ UNCHANGED <<remote, pending, fetched, calls, log, completed, failed, events,
                   budget, observed, bundle, cred>>

\* await run_sync(repo.remotes[self._remote].fetch, ...) returns
FetchOk(t) ==
    /\ pc[t] = "fetch"
    /\ clones' = [clones EXCEPT ![Path(t)] = FetchedRepo(@, remote[source[t].url])]
    /\ fetched' = [fetched EXCEPT ![t] = TRUE]
    /\ Goto(t, "notify")
    /\ UNCHANGED <<remote, pending, repaired, calls, log, completed, failed, events, budget, observed,
                   bundle, cred>>

\* the fetch raises pygit2.GitError (transport, authentication): no handler
FetchFail(t) ==
    /\ pc[t] = "fetch"
    /\ Event
    /\ fetched' = [fetched EXCEPT ![t] = TRUE]
    /\ Exit(t, "GitError")
    /\ UNCHANGED <<remote, clones, pending, repaired, calls, log, completed, failed, budget, observed,
                   bundle, cred>>

\* _notify_on_changes up to the call of on_update
Notify(t) ==
    /\ pc[t] = "notify"
    /\ LET repo == Repo(t)
           branch == source[t].branch
           new_revision == get_commit_hash(repo, branch)
           local_branch == get_local_branch(repo, branch)
           created == create_local_branch_ref(repo, branch, branch)
       IN  IF new_revision = None
           THEN /\ Exit(t, "returned")
                /\ UNCHANGED <<clones, pending, log>>
           ELSE IF local_branch = None /\ created.err # ""
           THEN /\ Exit(t, created.err)
                /\ UNCHANGED <<clones, pending, log>>
           ELSE /\ clones' = [clones EXCEPT ![Path(t)].lrefs = created.lrefs]
                /\ pending' = [pending EXCEPT ![t] =
                        [old |-> local_branch, new |-> new_revision, clone |-> FALSE]]
                /\ log' = Record(log, t, [call |-> CallNo(t), old |-> local_branch,
                                          new |-> new_revision])
                /\ Goto(t, "on_update")
    /\ UNCHANGED <<remote, fetched, repaired, calls, completed, failed, events, budget,
                   observed, bundle, cred>>

\* (mutant) the local branch is not brought forward after on_update
UpdateOkNoAdvance(t) ==
    /\ pc[t] = "on_update"
    /\ completed' = [completed EXCEPT ![t] = @ \cup {pending[t].new}]
    /\ failed' = [failed EXCEPT ![t] = NoPending]
    /\ pending' = [pending EXCEPT ![t] = NoPending]
    /\ Exit(t, "returned")
    /\ UNCHANGED <<remote, clones, fetched, repaired, calls, log, events, budget, observed,
                   bundle, cred>>

\* on_update returns; after _notify_on_changes, local_branch.set_target(new_revision)
UpdateOk(t) ==
    /\ pc[t] = "on_update"
    /\ completed' = [completed EXCEPT ![t] = @ \cup {pending[t].new}]
    /\ failed' = [failed EXCEPT ![t] = NoPending]
    /\ clones' = IF pending[t].clone THEN clones
                 ELSE [clones EXCEPT ![Path(t)].lrefs[source[t].branch] = pending[t].new]
    /\ pending' = [pending EXCEPT ![t] = NoPending]
    /\ Exit(t, "returned")
    /\ UNCHANGED <<remote, fetched, repaired, calls, log, events, budget, observed, bundle,
                   cred>>

\* (mutant) the local branch is brought forward although on_update raised
UpdateFailAdvancing(t) ==
    /\ pc[t] = "on_update"
    /\ Event
    /\ clones' = IF pending[t].clone THEN clones
                 ELSE [clones EXCEPT ![Path(t)].lrefs[source[t].branch] = pending[t].new]
    /\ failed' = [failed EXCEPT ![t] = pending[t]]
    /\ pending' = [pending EXCEPT ![t] = NoPending]
    /\ Exit(t, "CallbackError")
    /\ UNCHANGED <<remote, fetched, repaired, calls, log, completed, budget,
                   observed, bundle, cred>>

\* on_update raises: the error leaves fetch_and_notify_on_changes
UpdateFail(t) ==
    /\ pc[t] = "on_update"
    /\ Event
    /\ failed' = [failed EXCEPT ![t] = pending[t]]
    /\ pending' = [pending EXCEPT ![t] = NoPending]
    /\ Exit(t, "CallbackError")
    /\ UNCHANGED <<remote, clones, fetched, repaired, calls, log, completed, budget,
                   observed, bundle, cred>>

\* _clone: clone_repository succeeds, then on_update(None, repo.head.target.hex)
CloneOk(t) ==
    /\ pc[t] = "clone"
    /\ remote[source[t].url][source[t].branch] # None
    /\ LET repo == ClonedRepo(source[t].url, source[t].branch, remote[source[t].url]) IN
        /\ clones' = [clones EXCEPT ![Path(t)] = repo]
        /\ pending' = [pending EXCEPT ![t] =
                [old |-> None, new |-> repo.lrefs[source[t].branch], clone |-> TRUE]]
        /\ log' = Record(log, t, [call |-> CallNo(t), old |-> None,
                                  new |-> repo.lrefs[source[t].branch]])
    /\ Goto(t, "on_update")
    /\ UNCHANGED <<remote, fetched, repaired, calls, completed, failed, events, budget,
                   observed, bundle, cred>>

\* (mutant) the pygit2.GitError of clone_repository is not caught
CloneFailRaising(t) ==
    /\ pc[t] = "clone"
    /\ \/ Event
       \/ /\ remote[source[t].url][source[t].branch] = None
          /\ UNCHANGED events
    /\ Exit(t, "GitError")
    /\ UNCHANGED <<remote, clones, pending, fetched, repaired, calls, log, completed, failed,
                   budget, observed, bundle, cred>>

\* _clone: clone_repository raises pygit2.GitError, which is logged: a transport
\* failure, or a checkout_branch that the remote does not have
CloneFail(t) ==
    /\ pc[t] = "clone"
    /\ \/ Event
       \/ /\ remote[source[t].url][source[t].branch] = None
          /\ UNCHANGED events
    /\ Exit(t, "returned")
    /\ UNCHANGED <<remote, clones, pending, fetched, repaired, calls, log, completed, failed,
                   budget, observed, bundle, cred>>

\* a caller invokes make_bundle(base_hash); it takes no lock. Kept with the
\* result: whether the base was in the clone, and what make_bundle() with no
\* base returns in the same state.
MakeBundle(t, base_hash) ==
    /\ bundle' = [task |-> t, base_hash |-> base_hash,
                  found |-> commit_found(Repo(t), base_hash),
                  result |-> make_bundle(Repo(t), source[t].branch, base_hash),
                  full |-> make_bundle(Repo(t), source[t].branch, None)]
    /\ UNCHANGED <<remote, clones, locks, pc, args, pending, outcome, fetched, repaired,
                   calls, log, completed, failed, events, budget, observed, cred>>

\* the transport asks the GitCallback of a source for credentials
Credentials(auth, url, username_from_url, allowed_types) ==
    /\ cred' = [called |-> TRUE, auth |-> auth, url |-> url,
                username_from_url |-> username_from_url, allowed_types |-> allowed_types,
                result |-> credentials(auth, url, username_from_url, allowed_types)]
    /\ UNCHANGED <<remote, clones, locks, pc, args, pending, outcome, fetched, repaired,
                   calls, log, completed, failed, events, budget, observed, bundle>>

\* ---- the environment ----
\* somebody pushes to a tracked branch of a remote (or creates the branch)
Push(t) ==
    /\ Event
    /\ remote[source[t].url][source[t].branch] < MaxCommit
    /\ remote' = [remote EXCEPT ![source[t].url][source[t].branch] = @ + 1]
    /\ UNCHANGED <<clones, locks, pc, args, pending, outcome, fetched, repaired, calls, log,
                   completed, failed, budget, observed, bundle, cred>>

\* the clone directory is changed from outside while no call works on it
Tamper(i, what) ==
    /\ Event
    /\ locks[i] = NoTask
    /\ clones[i].kind = "ok"
    /\ clones' = [clones EXCEPT ![i] =
            CASE what = "delete" -> AbsentRepo
              [] what = "corrupt" -> [@ EXCEPT !.kind = "corrupt"]
              [] OTHER -> [@ EXCEPT !.remotes = {CHOOSE u \in URLs : sha256[u] # i}]]
    /\ UNCHANGED <<remote, locks, pc, args, pending, outcome, fetched, repaired, calls, log,
                   completed, failed, budget, observed, bundle, cred>>

Sync ==
    \/ \E t \in Tasks, h \in {None} \cup Commits, f \in BOOLEAN : Call(t, h, f)
    \/ \E t \in Tasks : Acquire(t)
    \/ \E t \in Tasks : Discover(t)
    \/ \E t \in Tasks : Rmtree(t)
    \/ \E t \in Tasks : FetchOk(t)
    \/ \E t \in Tasks : FetchFail(t)
    \/ \E t \in Tasks : Notify(t)
    \/ \E t \in Tasks : UpdateOk(t)
    \/ \E t \in Tasks : UpdateFail(t)
    \/ \E t \in Tasks : CloneOk(t)
    \/ \E t \in Tasks : CloneFail(t)
    \/ \E t \in Tasks : Push(t)
    \/ \E i \in Ids, w \in {"delete", "corrupt", "seturl"} : Tamper(i, w)

Next == Sync

NextBundle ==
    \/ Sync
    \/ \E t \in Tasks, h \in {None} \cup Commits : MakeBundle(t, h)

NextCred ==
    \E a \in Auths, u \in URLs, n \in Usernames, y \in AllowedTypes : Credentials(a, u, n, y)

Spec == Init /\ [][Next]_vars

SpecRetry == InitRetry /\ [][Next]_vars

SpecCred == InitCred /\ [][NextCred]_vars

SpecAll == InitAll /\ [][Next]_vars

SpecSeq == InitSeq /\ [][Next]_vars

SpecBundle == InitBundle /\ [][NextBundle]_vars

\* ---- properties ----
InSection(t) == pc[t] \in {"discover", "rmtree", "fetch", "clone", "notify", "on_update"}
Branch(t) == source[t].branch
RemoteHead(t) == remote[source[t].url][source[t].branch]
TrackingRef(t) == Repo(t).lrefs[Branch(t)]
ValidClone(t) == Repo(t).kind = "ok" /\ verify_found_repo_matches_remote(Repo(t), source[t].url)

\* every call so far passed no hint and no force and saw the same remote head
PlainCalls(t) ==
    \A i \in 1..Len(calls[t]) :
        /\ calls[t][i].hinted_hash = None
        /\ ~calls[t][i].force_fetch
        /\ calls[t][i].head = calls[t][1].head

\* C1: while the remote head does not change, nothing happens from outside and
\* every call passes no force and no hint, on_update is invoked by the first
\* call only.
C1_OnlyFirstCallNotifies ==
    \A t \in observed :
        (events = 0 /\ PlainCalls(t)) =>
            \A j \in 1..Len(log[t]) : log[t][j].call = 1

\* C2: two tasks whose sources have the same identity are never both between
\* the acquisition and the release of the lock (discover, delete, fetch, clone,
\* notify).
C2_MutualExclusion ==
    \A t \in Tasks, o \in Tasks :
        (t # o /\ source_id(source[t]) = source_id(source[o])) =>
            ~(InSection(t) /\ InSection(o))

\* C2 witness: one task fetches while the other task of the same source waits
\* for the lock.
C2_Witness ==
    \E t \in Tasks, o \in Tasks :
        /\ t # o
        /\ source[t].url = source[o].url
        /\ pc[t] = "fetch"
        /\ pc[o] = "acquire"

\* C3: a task waiting for its lock finds it free unless a task with the same
\* URL is inside the locked section: tasks of other URLs never hold it.
C3_Independence ==
    \A t \in Tasks :
        (pc[t] = "acquire"
            /\ \A o \in Tasks : (o # t /\ source[o].url = source[t].url) => ~InSection(o))
        => lock_free(_get_repo_lock(source[t]))

\* C3 witness: tasks of two different URLs are inside their locked sections at
\* the same time, and a third one is about to acquire.
C3_Witness ==
    \E t \in Tasks, o \in Tasks, w \in Tasks :
        /\ source[t].url # source[o].url
        /\ InSection(t)
        /\ InSection(o)
        /\ pc[w] = "acquire"

\* C4: a failing fetch never ends the call with an error raised to the caller.
C4_FetchFailureAbsorbed ==
    \A t \in Tasks : outcome[t] # "GitError"

\* C5: a clone whose remotes do not match the URL never ends the call with an
\* error raised to the caller (it is deleted and cloned again).
C5_MismatchRepaired ==
    \A t \in Tasks : outcome[t] # "ValueError"

\* C6 as claimed: a call on a valid clone whose hint resolves locally is never
\* fetching.
C6_HintNeverFetches ==
    \A t \in Tasks :
        (pc[t] = "fetch" /\ args[t].hinted_hash # None)
            => ~revparse_single(Repo(t), args[t].hinted_hash)

\* C6 amended: a call on a valid clone whose hint resolves locally is fetching
\* only if force is set or the tracked branch is unknown among the remote
\* branches of the clone.
C6_HintSkipsFetch ==
    \A t \in Tasks :
        (pc[t] = "fetch" /\ args[t].hinted_hash # None
            /\ revparse_single(Repo(t), args[t].hinted_hash))
        => (args[t].force_fetch \/ ~has_remote_branch(Repo(t), Branch(t)))

\* C6 witness: a call with a resolvable hint reached change detection without
\* a fetch although the remote is ahead of the clone.
C6_Witness ==
    \E t \in Tasks :
        /\ pc[t] = "notify"
        /\ ~fetched[t]
        /\ args[t].hinted_hash # None
        /\ revparse_single(Repo(t), args[t].hinted_hash)
        /\ RemoteHead(t) > get_commit_hash(Repo(t), Branch(t))

\* C7: the four calls of the scenario (remote at 1; clone; push to 2; plain
\* call; forced call; plain call) deliver exactly (none, 1), (1, 2) and leave
\* the tracking ref at 2.
C7_Scenario ==
    LET c == calls["t1"] IN
    (/\ "t1" \in observed
     /\ Len(c) = 4
     /\ pc["t1"] = "idle"
     /\ events = 1
     /\ c[1].head = 1
     /\ c[2] = [hinted_hash |-> None, force_fetch |-> FALSE, head |-> 2]
     /\ c[3] = [hinted_hash |-> None, force_fetch |-> TRUE, head |-> 2]
     /\ c[4] = [hinted_hash |-> None, force_fetch |-> FALSE, head |-> 2])
    => /\ log["t1"] = << [call |-> 1, old |-> None, new |-> 1],
                         [call |-> 3, old |-> 1, new |-> 2] >>
       /\ TrackingRef("t1") = 2

\* C8 as claimed: the tracking ref points at R only if an on_update with
\* new_revision = R has completed.
C8_RefOnlyAfterNotify ==
    \A t \in Tasks :
        (Repo(t).kind = "ok" /\ TrackingRef(t) # None) => TrackingRef(t) \in completed[t]

\* C8 amended: an existing tracking ref is moved to another commit R only by
\* the step in which the on_update with new_revision = R completes.
C8_AdvanceOnlyAfterNotify ==
    [][\A t \in Tasks :
          (/\ TrackingRef(t) # None
           /\ TrackingRef(t)' # None
           /\ TrackingRef(t)' # TrackingRef(t))
          => (\E o \in Tasks :
                /\ Path(o) = Path(t)
                /\ Branch(o) = Branch(t)
                /\ pc[o] = "on_update"
                /\ pending[o].new = TrackingRef(t)'
                /\ TrackingRef(t)' \in completed'[o])]_vars

\* C8 witness: after one push and nothing else from outside, the tracking ref
\* made by the clone at 1 has been advanced to 2.
C8_Witness ==
    /\ events = 1
    /\ TrackingRef("t1") = 2
    /\ completed["t1"] = {1, 2}

\* a call that fetched on a valid clone has ended, and there is neither a
\* tracking ref nor the tracked (= base) branch on the remote
EndedOnMissingBranch(t) ==
    /\ pc[t] = "idle"
    /\ fetched[t]
    /\ outcome[t] # "GitError"
    /\ ValidClone(t)
    /\ TrackingRef(t) = None
    /\ RemoteHead(t) = None

C10_FallbackNeverRaises ==
    (/\ bundle.task # NoTask
     /\ bundle.base_hash # None
     /\ ~bundle.found
     /\ bundle.result.kind # "InvalidGitRepositoryError")
    => (bundle.result = bundle.full /\ bundle.result.kind = "full")

\* C10 amended: make_bundle with a base that is not in the clone does what
\* make_bundle() does in the same state: the full bundle of the head when the
\* head of the tracked branch resolves, the same error when it does not.
C10_FallbackSameAsNoBase ==
    /\ (bundle.task # NoTask /\ bundle.base_hash # None /\ ~bundle.found)
        => /\ bundle.result = bundle.full
           /\ bundle.result.kind \in {"full", "ValueError", "InvalidGitRepositoryError"}
           /\ bundle.result.kind = "full" <=> bundle.result.head # None
    /\ \A t \in Tasks, h \in Commits :
        (ValidClone(t) /\ ~commit_found(Repo(t), h)
            /\ _get_current_branch_head(Repo(t), Branch(t)) # None)
        => make_bundle(Repo(t), Branch(t), h)
             = FullBundle(_get_current_branch_head(Repo(t), Branch(t)))

\* C10 witness: make_bundle was called with a base that is not in the clone
\* and returned the full bundle of the head.
C10_Witness ==
    /\ bundle.task # NoTask
    /\ bundle.base_hash # None
    /\ ~bundle.found
    /\ bundle.result.kind = "full"
    /\ bundle.result.head # None

\* C11: a call that finds no clone directory at its path goes to _clone whatever
\* its hint and force are; a clone that succeeds hands on_update exactly
\* (None, head of the new clone); and after that on_update the call ends, so the
\* call delivers one notification.
C11_CloneAfterRemoval ==
    [][\A t \in Tasks :
        /\ (pc[t] = "discover" /\ Repo(t).kind = "absent" /\ pc'[t] # "discover")
              => pc'[t] = "clone"
        /\ (pc[t] = "clone" /\ pc'[t] = "on_update")
              => /\ pending'[t] = [old |-> None, new |-> RemoteHead(t), clone |-> TRUE]
                 /\ TrackingRef(t)' = RemoteHead(t)
        /\ (pc[t] = "on_update" /\ pending[t].clone /\ pc'[t] # "on_update")
              => pc'[t] = "idle"]_vars

\* the first call of t1 cloned and notified, the directory was then removed from
\* outside (no rmtree in the second call, the other fetcher never ran), and the
\* second call is delivering the notification of its own clone
C11_Witness ==
    /\ pc["t1"] = "on_update"
    /\ pending["t1"].clone
    /\ pending["t1"].old = None
    /\ ~repaired["t1"]
    /\ completed["t1"] # {}
    /\ budget["t1"] = MaxCalls - 2
    /\ budget["t2"] = MaxCalls

\* C12: what credentials returns is fixed by the auth of the source: an SSH auth
\* gives an in-memory key pair of its private key with an empty passphrase, a
\* token auth gives user "git" with the token as password, any other auth gives
\* the user name of the URL and nothing else; and the answer is the same for
\* every url and every set of allowed types.
C12_CredentialMapping ==
    cred.called =>
        /\ cred.auth.type = "ssh" =>
                /\ cred.result.kind = "KeypairFromMemory"
                /\ cred.result.privkey = cred.auth.private_key
                /\ cred.result.passphrase = ""
        /\ cred.auth.type = "github_token" =>
                cred.result = [kind |-> "UserPass", username |-> "git",
                               password |-> cred.auth.token]
        /\ cred.auth.type = "none" =>
                cred.result = [kind |-> "Username", username |-> cred.username_from_url]
        /\ \A u \in URLs, y \in AllowedTypes :
                credentials(cred.auth, u, cred.username_from_url, y) = cred.result

\* the transport did not ask for an SSH key and the SSH source still answers with
\* its key pair
C12_Witness ==
    /\ cred.called
    /\ cred.auth.type = "ssh"
    /\ "SSH_KEY" \notin cred.allowed_types
    /\ cred.result.kind = "KeypairFromMemory"

\* C13: on a valid clone the call goes on to fetch exactly when force is set, or
\* the tracked branch is not among the clone's remote branches, or a hint is
\* given that the clone cannot resolve; otherwise it goes to change detection
\* without a fetch.
C13_FetchDecisionTable ==
    [][\A t \in Tasks :
        (pc[t] = "discover" /\ ValidClone(t) /\ pc'[t] # "discover") =>
            /\ pc'[t] \in {"fetch", "notify"}
            /\ pc'[t] = "fetch" <=>
                    \/ args[t].force_fetch
                    \/ Repo(t).rrefs[Branch(t)] = None
                    \/ /\ args[t].hinted_hash # None
                       /\ args[t].hinted_hash \notin Repo(t).objects]_vars

\* a call about to fetch only because its hint is unknown to the clone
C13_Witness ==
    \E t \in Tasks :
        /\ pc[t] = "fetch"
        /\ ValidClone(t)
        /\ ~args[t].force_fetch
        /\ Repo(t).rrefs[Branch(t)] # None
        /\ args[t].hinted_hash # None
        /\ args[t].hinted_hash \notin Repo(t).objects

\* C14: a lock is held only by a call that is inside the block: however a call
\* ended (returned, or an error left it), it does not hold its lock any more, so
\* the lock of a clone on which no call works is free for the next call.
C14_LockReleasedOnExit ==
    /\ \A t \in Tasks : ~InSection(t) => locks[_get_repo_lock(source[t])] # t
    /\ \A i \in Ids :
          (\A t \in Tasks : _get_repo_lock(source[t]) = i => ~InSection(t)) => lock_free(i)

\* the call of t1 ended with the error of on_update, and the call of t2 on the
\* same clone got the lock
C14_Witness ==
    /\ pc["t1"] = "idle"
    /\ outcome["t1"] = "CallbackError"
    /\ pc["t2"] = "discover"
    /\ locks[_get_repo_lock(source["t2"])] = "t2"

\* C15: a clone that fails ends the call at once with a normal return: no
\* on_update, no second attempt inside the call, no clone left behind; and a
\* later call that still finds no clone goes to _clone again.
C15_CloneFailureAbsorbed ==
    [][\A t \in Tasks :
        /\ (pc[t] = "clone" /\ pc'[t] \notin {"clone", "on_update"}) =>
              /\ pc'[t] = "idle"
              /\ outcome'[t] = "returned"
              /\ Repo(t)'.kind = "absent"
              /\ UNCHANGED <<pending, log, completed, failed>>
        /\ (pc[t] = "discover" /\ ~_discover_repository(Repo(t))) =>
              pc'[t] \in {"discover", "clone"}]_vars

\* the first call of t1 failed to clone (one failure from outside, no on_update
\* of t1 returned or raised, the other fetcher never ran) and its second call is
\* about to clone again
C15_Witness ==
    /\ pc["t1"] = "clone"
    /\ Repo("t1").kind = "absent"
    /\ events = 1
    /\ completed["t1"] = {}
    /\ failed["t1"] = NoPending
    /\ outcome["t1"] = "none"
    /\ budget["t1"] = MaxCalls - 2
    /\ budget["t2"] = MaxCalls

\* C16: when change detection starts and the clone has no remote-tracking ref
\* of the tracked branch, the call ends there with a normal return: no on_update
\* is invoked and no ref of the clone is created or moved.
C16_UnresolvableHeadAborts ==
    [][\A t \in Tasks :
        (pc[t] = "notify" /\ Repo(t).rrefs[Branch(t)] = None /\ pc'[t] # "notify") =>
            /\ pc'[t] = "idle"
            /\ outcome'[t] = "returned"
            /\ UNCHANGED <<clones, pending, log, completed, failed>>]_vars

\* a call fetched, found no head of its branch and returned; it has never
\* notified and the clone has no tracking ref of the branch
C16_Witness ==
    \E t \in Tasks :
        /\ pc[t] = "idle"
        /\ outcome[t] = "returned"
        /\ fetched[t]
        /\ Repo(t).kind = "ok"
        /\ Repo(t).rrefs[Branch(t)] = None
        /\ Repo(t).lrefs[Branch(t)] = None
        /\ completed[t] = {}
        /\ failed[t] = NoPending

\* C17: a call with no hint and no force on a valid clone that knows the tracked
\* branch does not fetch; if the clone has a tracking ref, the call still
\* invokes on_update with (tracking ref, remote head known to the clone),
\* whoever brought that head in, and when on_update returns the tracking ref is
\* that head.
C17_NotifiesWithoutFetch ==
    [][\A t \in Tasks :
        /\ (/\ pc[t] = "discover" /\ pc'[t] # "discover"
            /\ ValidClone(t) /\ args[t] = NoArgs
            /\ Repo(t).rrefs[Branch(t)] # None)
              => pc'[t] = "notify"
        /\ (/\ pc[t] = "notify" /\ pc'[t] # "notify"
            /\ ~fetched[t]
            /\ TrackingRef(t) # None /\ Repo(t).rrefs[Branch(t)] # None)
              => /\ pc'[t] = "on_update"
                 /\ pending'[t] = [old |-> TrackingRef(t), new |-> Repo(t).rrefs[Branch(t)],
                                   clone |-> FALSE]
        /\ (/\ pc[t] = "on_update" /\ pc'[t] = "idle" /\ outcome'[t] = "returned"
            /\ ~fetched[t] /\ ~pending[t].clone)
              => TrackingRef(t)' = pending[t].new]_vars

\* t1 synchronized at commit 1, main was pushed to, t2 (branch dev, same clone)
\* fetched, and the second call of t1, with no hint and no force, is notifying
\* (1, 2) without having fetched
C17_Witness ==
    /\ pc["t1"] = "on_update"
    /\ args["t1"] = NoArgs
    /\ ~fetched["t1"]
    /\ pending["t1"] = [old |-> 1, new |-> 2, clone |-> FALSE]
    /\ fetched["t2"]
    /\ outcome["t2"] = "returned"
    /\ events = 1
    /\ budget["t1"] = MaxCalls - 2

\* C18: while on_update of a call runs, that call holds the lock of its clone,
\* from the step that invokes it to the step that ends it; so two fetchers of
\* one source identity are never both in on_update, and their notifications
\* come in the order in which their calls got the lock.
C18_NotifyUnderLock ==
    /\ \A t \in Tasks : pc[t] = "on_update" => locks[_get_repo_lock(source[t])] = t
    /\ \A t, o \in Tasks :
          (t # o /\ source_id(source[t]) = source_id(source[o]))
              => ~(pc[t] = "on_update" /\ pc[o] = "on_update")

\* on_update of t1 runs while the call of t2 on the same clone waits for the lock
C18_Witness ==
    /\ pc["t1"] = "on_update"
    /\ pc["t2"] = "acquire"
    /\ source_id(source["t1"]) = source_id(source["t2"])
    /\ locks[_get_repo_lock(source["t2"])] = "t1"

\* C19: change detection on an existing clone invokes on_update with old = the
\* tracking ref as it was when change detection started (None exactly when
\* there was none) and new = the remote head known to the clone; and when the
\* call returns after on_update, the tracking ref, new and that remote head are
\* one commit.
C19_NotifiedPair ==
    [][\A t \in Tasks :
        /\ (pc[t] = "notify" /\ pc'[t] = "on_update") =>
              /\ pending'[t].old = TrackingRef(t)
              /\ pending'[t].new = Repo(t).rrefs[Branch(t)]
              /\ pending'[t].new # None
        /\ (/\ pc[t] = "on_update" /\ ~pending[t].clone
            /\ pc'[t] = "idle" /\ outcome'[t] = "returned") =>
              /\ TrackingRef(t)' = pending[t].new
              /\ Repo(t)'.rrefs[Branch(t)] = pending[t].new]_vars

\* t1 was notified of commit 1 and of commit 2, its last call worked on the
\* existing clone (it fetched) and returned, and tracking ref and known remote
\* head are commit 2
C19_Witness ==
    /\ pc["t1"] = "idle"
    /\ outcome["t1"] = "returned"
    /\ fetched["t1"]
    /\ ~repaired["t1"]
    /\ completed["t1"] = {1, 2}
    /\ TrackingRef("t1") = 2
    /\ Repo("t1").rrefs[Branch("t1")] = 2

\* C20: when on_update raises in change detection on a clone whose tracking ref
\* existed, the call ends with that error and the tracking ref is still
\* old_revision; and the next change detection of the fetcher that finds the same
\* remote head in the clone invokes on_update with the same pair again.
C20_FailedNotificationRetried ==
    [][\A t \in Tasks :
        /\ (/\ pc[t] = "on_update" /\ pc'[t] = "idle" /\ outcome'[t] # "returned"
            /\ ~pending[t].clone /\ pending[t].old # None)
              => /\ outcome'[t] = "CallbackError"
                 /\ TrackingRef(t)' = pending[t].old
        /\ (/\ pc[t] = "notify" /\ pc'[t] # "notify"
            /\ ~failed[t].clone /\ failed[t].old # None
            /\ TrackingRef(t) # None
            /\ Repo(t).rrefs[Branch(t)] = failed[t].new)
              => /\ pc'[t] = "on_update"
                 /\ pending'[t] = failed[t]]_vars

\* on_update of t1 raised for (1, 2) on the existing clone, and a later call of
\* t1 is invoking on_update with (1, 2) again
C20_Witness ==
    /\ pc["t1"] = "on_update"
    /\ failed["t1"] = [old |-> 1, new |-> 2, clone |-> FALSE]
    /\ pending["t1"] = failed["t1"]
    /\ TrackingRef("t1") = 1

TypeOK ==
    /\ events \in 0..MaxEvents
    /\ \A t \in Tasks : pc[t] \in {"idle", "acquire", "discover", "rmtree", "fetch", "notify", "on_update", "clone"}
====
